---- MODULE Spec2Model ----
(***************************************************************************)
(* The organisations router (app/api/routes/organisations.py): five        *)
(* request handlers over two tables, organisations and locations.          *)
(*                                                                         *)
(* A table is the sequence of its rows in insertion order.  A handler runs *)
(* to completion inside one request-scoped session, so every request is    *)
(* one step; `resp` holds the request just served and its response.        *)
(* Coordinates are floats in the source; the handlers only compare them,   *)
(* so they are drawn from a small ordered set here.                        *)
(***************************************************************************)
EXTENDS Integers, Sequences, FiniteSets, TLC

\* Bound of the model: the total number of rows the store may hold.
MaxRows == 3

\* Sample inputs.
OrgNames == {"", "Acme"}
LocNames == {"HQ", "Depot"}
Coords == {0, 1}

\* The identifier of an object that was constructed but not yet flushed
\* (Python's None in Organisation(name=...) / Location(...)).
NullId == 0

HTTP_200_OK == 200
HTTP_404_NOT_FOUND == 404

ReadOps == {"get_organisations", "get_organisation", "get_organisation_locations"}

VARIABLES
  organisations,  \* table: rows [id, name]
  locations,      \* table: rows [id, name, latitude, longitude, organisation_id]
  resp,           \* the request served last and its response
  repeat,         \* history: the last request was a read equal to the one before it
  createdOrgs,    \* history: for each successful create_organisation, the
                  \*   returned id with the name that was asked for
  createdLocs     \* history: for each successful create_location, the
                  \*   returned id with the attributes that were asked for

vars == <<organisations, locations, resp, repeat, createdOrgs, createdLocs>>

Range(s) == {s[i] : i \in 1..Len(s)}

----------------------------------------------------------------------------
\* Requests.  Every request is a record of the same shape; a handler reads
\* only the fields that are its parameters.  bounding_box is <<>> for None.

Request(op, name, latitude, longitude, organisation_id, bounding_box) ==
  [op |-> op, name |-> name, latitude |-> latitude, longitude |-> longitude,
   organisation_id |-> organisation_id, bounding_box |-> bounding_box]

NoRequest == Request("none", "", 0, 0, NullId, <<>>)

BoundingBoxes == Coords \X Coords \X Coords \X Coords

\* The identifiers a request may name: those in use and one that is not.
RequestIds == 1..(Len(organisations) + 1)

\* The payload of POST /create (CreateOrganisation): a name, any text.
CreateOrganisationPayloads == [name : OrgNames]

\* The payload of POST /create/locations (CreateLocation).
CreateLocationPayloads ==
  [name : LocNames, latitude : Coords, longitude : Coords,
   organisation_id : RequestIds]

----------------------------------------------------------------------------
\* The session (sqlmodel.Session over the request's connection).

\* session.get(Model, id): the row with that primary key, as a sequence of
\* length 1, or <<>> for None.
SessionGet(rows, id) == SelectSeq(rows, LAMBDA r : r.id = id)

\* The primary key the store assigns to the next row of a table.
NextId(rows) ==
  IF rows = <<>> THEN 1
  ELSE (CHOOSE m \in {r.id : r \in Range(rows)} :
          \A r \in Range(rows) : r.id <= m) + 1

\* session.add(obj); session.commit(): one row inserted, its id assigned.
Commit(rows, obj) == Append(rows, [obj EXCEPT !.id = NextId(rows)])

\* What a handler produces: the tables after it, and the HTTP response.
Outcome(orgs, locs, status, detail, body) ==
  [organisations |-> orgs, locations |-> locs,
   status |-> status, detail |-> detail, body |-> body]

----------------------------------------------------------------------------
\* The handlers, as functions of the tables and the request.

\* A create_organisation that refuses an empty name.
create_organisation_rejects_empty(orgs, locs, req) ==
  IF req.name = ""
  THEN Outcome(orgs, locs, 422, "name must not be empty", <<>>)
  ELSE LET committed == Commit(orgs, [id |-> NullId, name |-> req.name])
       IN  Outcome(committed, locs, HTTP_200_OK, "",
                   SessionGet(committed, committed[Len(committed)].id))

\* POST /create
create_organisation(orgs, locs, req) ==
  LET organisation == [id |-> NullId, name |-> req.name]
      committed    == Commit(orgs, organisation)
      refreshed    == SessionGet(committed, committed[Len(committed)].id)
  IN  Outcome(committed, locs, HTTP_200_OK, "", refreshed)

\* A get_organisations that answers 404 when there is no row, as
\* get_organisation_locations does.
get_organisations_404_on_empty(orgs, locs, req) ==
  IF orgs = <<>>
  THEN Outcome(orgs, locs, HTTP_404_NOT_FOUND, "Organisation not found", <<>>)
  ELSE Outcome(orgs, locs, HTTP_200_OK, "", orgs)

\* GET /
get_organisations(orgs, locs, req) ==
  Outcome(orgs, locs, HTTP_200_OK, "", orgs)

\* A get_organisation that ignores the identifier and returns the first row.
get_organisation_first(orgs, locs, req) ==
  IF orgs = <<>>
  THEN Outcome(orgs, locs, HTTP_404_NOT_FOUND, "Organisation not found", <<>>)
  ELSE Outcome(orgs, locs, HTTP_200_OK, "", <<orgs[1]>>)

\* A get_organisation that creates the organisation it does not find.
get_organisation_or_create(orgs, locs, req) ==
  LET organisation == SessionGet(orgs, req.organisation_id)
  IN  IF organisation = <<>>
      THEN Outcome(Commit(orgs, [id |-> NullId, name |-> ""]), locs,
                   HTTP_404_NOT_FOUND, "Organisation not found", <<>>)
      ELSE Outcome(orgs, locs, HTTP_200_OK, "", organisation)

\* GET /{organisation_id}
get_organisation(orgs, locs, req) ==
  LET organisation == SessionGet(orgs, req.organisation_id)
  IN  IF organisation = <<>>
      THEN Outcome(orgs, locs, HTTP_404_NOT_FOUND, "Organisation not found", <<>>)
      ELSE Outcome(orgs, locs, HTTP_200_OK, "", organisation)

\* The Location object create_location constructs from its payload.
NewLocation(req) ==
  [id |-> NullId, name |-> req.name, latitude |-> req.latitude,
   longitude |-> req.longitude, organisation_id |-> req.organisation_id]

\* A create_location without the organisation lookup.
create_location_unchecked(orgs, locs, req) ==
  LET committed == Commit(locs, NewLocation(req))
  IN  Outcome(orgs, committed, HTTP_200_OK, "",
              SessionGet(committed, committed[Len(committed)].id))

\* A create_location that commits the row before it looks the organisation up.
create_location_commit_first(orgs, locs, req) ==
  LET committed == Commit(locs, NewLocation(req))
  IN  IF SessionGet(orgs, req.organisation_id) = <<>>
      THEN Outcome(orgs, committed, HTTP_404_NOT_FOUND, "Organisation not found", <<>>)
      ELSE Outcome(orgs, committed, HTTP_200_OK, "",
                   SessionGet(committed, committed[Len(committed)].id))

\* A create_location that stores latitude and longitude the wrong way round.
create_location_swapped(orgs, locs, req) ==
  IF SessionGet(orgs, req.organisation_id) = <<>>
  THEN Outcome(orgs, locs, HTTP_404_NOT_FOUND, "Organisation not found", <<>>)
  ELSE LET committed == Commit(locs, [NewLocation(req) EXCEPT
                                        !.latitude = req.longitude,
                                        !.longitude = req.latitude])
       IN  Outcome(orgs, committed, HTTP_200_OK, "",
                   SessionGet(committed, committed[Len(committed)].id))

\* A create_location that keeps one location per organisation: it updates
\* the organisation's location when there is one.
create_location_replaces(orgs, locs, req) ==
  IF SessionGet(orgs, req.organisation_id) = <<>>
  THEN Outcome(orgs, locs, HTTP_404_NOT_FOUND, "Organisation not found", <<>>)
  ELSE IF \E i \in 1..Len(locs) : locs[i].organisation_id = req.organisation_id
  THEN LET i == CHOOSE i \in 1..Len(locs) :
                  locs[i].organisation_id = req.organisation_id
           updated == [locs EXCEPT ![i] = [NewLocation(req) EXCEPT !.id = locs[i].id]]
       IN  Outcome(orgs, updated, HTTP_200_OK, "", <<updated[i]>>)
  ELSE LET committed == Commit(locs, NewLocation(req))
       IN  Outcome(orgs, committed, HTTP_200_OK, "",
                   SessionGet(committed, committed[Len(committed)].id))

\* POST /create/locations
create_location(orgs, locs, req) ==
  LET organisation == SessionGet(orgs, req.organisation_id)
  IN  IF organisation = <<>>
      THEN Outcome(orgs, locs, HTTP_404_NOT_FOUND, "Organisation not found", <<>>)
      ELSE LET location  == NewLocation(req)
               committed == Commit(locs, location)
               refreshed == SessionGet(committed, committed[Len(committed)].id)
           IN  Outcome(orgs, committed, HTTP_200_OK, "", refreshed)

NoLocationsDetail ==
  "No locations found for this organisation within the specified bounding box."

\* The rows the query of get_organisation_locations selects, in table order.
LocationsQuery(locs, organisation_id, bounding_box) ==
  LET OfOrganisation(l) == l.organisation_id = organisation_id
      InBox(l) ==
        LET min_lat == bounding_box[1]
            min_lon == bounding_box[2]
            max_lat == bounding_box[3]
            max_lon == bounding_box[4]
        IN  /\ l.latitude >= min_lat
            /\ l.latitude <= max_lat
            /\ l.longitude >= min_lon
            /\ l.longitude <= max_lon
  IN  IF bounding_box # <<>>
      THEN SelectSeq(locs, LAMBDA l : OfOrganisation(l) /\ InBox(l))
      ELSE SelectSeq(locs, OfOrganisation)

\* A get_organisation_locations that reads the box as
\* (min_lat, max_lat, min_lon, max_lon).
get_organisation_locations_box_order(orgs, locs, req) ==
  LET b == req.bounding_box
      locations_ ==
        IF b # <<>>
        THEN LocationsQuery(locs, req.organisation_id, <<b[1], b[3], b[2], b[4]>>)
        ELSE LocationsQuery(locs, req.organisation_id, b)
  IN  IF locations_ = <<>>
      THEN Outcome(orgs, locs, HTTP_404_NOT_FOUND, NoLocationsDetail, <<>>)
      ELSE Outcome(orgs, locs, HTTP_200_OK, "", locations_)

\* A get_organisation_locations that answers 404 for an unknown organisation
\* and the (possibly empty) list otherwise.
get_organisation_locations_checks_org(orgs, locs, req) ==
  LET locations_ == LocationsQuery(locs, req.organisation_id, req.bounding_box)
  IN  IF SessionGet(orgs, req.organisation_id) = <<>>
      THEN Outcome(orgs, locs, HTTP_404_NOT_FOUND, "Organisation not found", <<>>)
      ELSE Outcome(orgs, locs, HTTP_200_OK, "", locations_)

\* GET /{organisation_id}/locations
get_organisation_locations(orgs, locs, req) ==
  LET locations_ == LocationsQuery(locs, req.organisation_id, req.bounding_box)
  IN  IF locations_ = <<>>
      THEN Outcome(orgs, locs, HTTP_404_NOT_FOUND, NoLocationsDetail, <<>>)
      ELSE Outcome(orgs, locs, HTTP_200_OK, "", locations_)

----------------------------------------------------------------------------
\* The service: one step per request.

Init ==
  /\ organisations = <<>>
  /\ locations = <<>>
  /\ resp = [req |-> NoRequest, status |-> HTTP_200_OK, detail |-> "", body |-> <<>>]
  /\ repeat = FALSE
  /\ createdOrgs = <<>>
  /\ createdLocs = <<>>

\* The store takes the handler's tables; resp records the request and the
\* response; repeat records whether a read was asked twice in a row.
Serve(req, out) ==
  /\ organisations' = out.organisations
  /\ locations' = out.locations
  /\ resp' = [req |-> req, status |-> out.status, detail |-> out.detail,
              body |-> out.body]
  /\ repeat' = (req.op \in ReadOps /\ resp.req = req)

RoomForRow == Len(organisations) + Len(locations) < MaxRows

CreateOrganisation ==
  \E payload \in CreateOrganisationPayloads :
    LET name == payload.name
        req == Request("create_organisation", name, 0, 0, NullId, <<>>)
        out == create_organisation(organisations, locations, req)
    IN  /\ RoomForRow
        /\ Serve(req, out)
        /\ createdOrgs' =
             IF out.status = HTTP_200_OK
             THEN Append(createdOrgs, [id |-> out.body[1].id, name |-> name])
             ELSE createdOrgs
        /\ UNCHANGED createdLocs

GetOrganisations ==
  LET req == Request("get_organisations", "", 0, 0, NullId, <<>>)
      out == get_organisations(organisations, locations, req)
  IN  /\ Serve(req, out)
      /\ UNCHANGED <<createdOrgs, createdLocs>>

GetOrganisation ==
  \E organisation_id \in RequestIds :
    LET req == Request("get_organisation", "", 0, 0, organisation_id, <<>>)
        out == get_organisation(organisations, locations, req)
    IN  /\ Serve(req, out)
        /\ UNCHANGED <<createdOrgs, createdLocs>>

CreateLocation ==
  \E payload \in CreateLocationPayloads :
    LET name == payload.name
        latitude == payload.latitude
        longitude == payload.longitude
        organisation_id == payload.organisation_id
        req == Request("create_location", name, latitude, longitude,
                       organisation_id, <<>>)
        out == create_location(organisations, locations, req)
    IN  /\ RoomForRow
        /\ Serve(req, out)
        /\ createdLocs' =
             IF out.status = HTTP_200_OK
             THEN Append(createdLocs,
                         [id |-> out.body[1].id, name |-> name,
                          latitude |-> latitude, longitude |-> longitude,
                          organisation_id |-> organisation_id])
             ELSE createdLocs
        /\ UNCHANGED createdOrgs

GetOrganisationLocations ==
  \E organisation_id \in RequestIds, bounding_box \in {<<>>} \cup BoundingBoxes :
    LET req == Request("get_organisation_locations", "", 0, 0,
                       organisation_id, bounding_box)
        out == get_organisation_locations(organisations, locations, req)
    IN  /\ Serve(req, out)
        /\ UNCHANGED <<createdOrgs, createdLocs>>

Next ==
  \/ CreateOrganisation
  \/ GetOrganisations
  \/ GetOrganisation
  \/ CreateLocation
  \/ GetOrganisationLocations

Spec == Init /\ [][Next]_vars

----------------------------------------------------------------------------
\* Properties.

Op(name) == resp.req.op = name

OrganisationExists(id) == \E o \in Range(organisations) : o.id = id

\* The locations of organisation o, narrowed by a box when one is given.
Matching(o, box) ==
  {l \in Range(locations) :
     /\ l.organisation_id = o
     /\ box # <<>> =>
          /\ box[1] <= l.latitude /\ l.latitude <= box[3]
          /\ box[2] <= l.longitude /\ l.longitude <= box[4]}

\* A response body that lists each of its rows once.
NoDuplicates(body) == Cardinality(Range(body)) = Len(body)

\* C1. Referential integrity: every persisted Location row has an
\* organisation_id that is the identifier of a persisted Organisation row.
C1_ReferentialIntegrity ==
  \A l \in Range(locations) : OrganisationExists(l.organisation_id)

C1_Witness ==
  /\ Len(organisations) = 2
  /\ Len(locations) = 1
  /\ locations[1].organisation_id = 2
  /\ Op("create_location")
  /\ resp.status = HTTP_200_OK

\* C2. create_location with an organisation_id for which no Organisation row
\* exists fails with 404 and leaves both tables as they were.
C2_CreateLocationUnknownOrg ==
  [][(/\ resp'.req.op = "create_location"
      /\ ~OrganisationExists(resp'.req.organisation_id))
     => (/\ resp'.status = HTTP_404_NOT_FOUND
         /\ locations' = locations
         /\ organisations' = organisations)]_vars

C2_Witness ==
  /\ Op("create_location")
  /\ ~OrganisationExists(resp.req.organisation_id)
  /\ resp.status = HTTP_404_NOT_FOUND
  /\ Len(organisations) = 1
  /\ Len(locations) = 1

\* C3. A successful get_organisation_locations with a bounding box returns
\* exactly the persisted locations of that organisation whose latitude and
\* longitude lie within the box, bounds included.
C3_BoundingBoxExact ==
  (/\ Op("get_organisation_locations")
   /\ resp.req.bounding_box # <<>>
   /\ resp.status = HTTP_200_OK)
  => (/\ Range(resp.body) = Matching(resp.req.organisation_id, resp.req.bounding_box)
      /\ NoDuplicates(resp.body))

\* A box with distinct latitude and longitude bounds that keeps one location
\* of the organisation, on its boundary, and leaves another out.
C3_Witness ==
  /\ Op("get_organisation_locations")
  /\ resp.req.bounding_box = <<0, 1, 0, 1>>
  /\ resp.status = HTTP_200_OK
  /\ Len(resp.body) = 1
  /\ \E l \in Range(locations) :
       /\ l.organisation_id = resp.req.organisation_id
       /\ l \notin Range(resp.body)

\* C4. get_organisation_locations answers 404 exactly when the selected list
\* is empty, with one and the same error whatever the reason, and never
\* answers an empty list as a success.
C4_NotFoundIffEmpty ==
  Op("get_organisation_locations")
  => (/\ resp.status \in {HTTP_200_OK, HTTP_404_NOT_FOUND}
      /\ resp.status = HTTP_404_NOT_FOUND
           <=> Matching(resp.req.organisation_id, resp.req.bounding_box) = {}
      /\ resp.status = HTTP_404_NOT_FOUND => resp.detail = NoLocationsDetail
      /\ resp.status = HTTP_200_OK => resp.body # <<>>)

\* 404 for an organisation that exists and has no location.
C4_Witness ==
  /\ Op("get_organisation_locations")
  /\ resp.status = HTTP_404_NOT_FOUND
  /\ OrganisationExists(resp.req.organisation_id)
  /\ resp.req.bounding_box = <<>>
  /\ Len(locations) = 1

\* C5. get_organisation(id) returns the Organisation row with identifier id
\* when there is one and fails with 404 exactly when there is none; an
\* organisation that create_organisation(name) returned with identifier i is
\* returned by any later get_organisation(i) with that name and identifier.
C5_GetOrganisation ==
  Op("get_organisation")
  => (/\ OrganisationExists(resp.req.organisation_id)
           => /\ resp.status = HTTP_200_OK
              /\ Len(resp.body) = 1
              /\ resp.body[1].id = resp.req.organisation_id
              /\ resp.body[1] \in Range(organisations)
      /\ ~OrganisationExists(resp.req.organisation_id)
           => resp.status = HTTP_404_NOT_FOUND
      /\ \A c \in Range(createdOrgs) :
           c.id = resp.req.organisation_id
             => /\ resp.status = HTTP_200_OK
                /\ resp.body = <<[id |-> c.id, name |-> c.name]>>)

C5_Witness ==
  /\ Op("get_organisation")
  /\ resp.req.organisation_id = 2
  /\ resp.status = HTTP_200_OK
  /\ Len(createdOrgs) = 3
  /\ createdOrgs[1].name # createdOrgs[2].name

\* C6. A successful get_organisation_locations without a bounding box returns
\* exactly the locations that successful create_location calls persisted for
\* that organisation, each with the name, latitude and longitude given at
\* creation, and no location of another organisation.
C6_LocationsOfOrganisation ==
  (/\ Op("get_organisation_locations")
   /\ resp.req.bounding_box = <<>>
   /\ resp.status = HTTP_200_OK)
  => (/\ Range(resp.body) =
           {c \in Range(createdLocs) : c.organisation_id = resp.req.organisation_id}
      /\ NoDuplicates(resp.body))

C6_Witness ==
  /\ Op("get_organisation_locations")
  /\ resp.req.bounding_box = <<>>
  /\ resp.status = HTTP_200_OK
  /\ Len(resp.body) = 2
  /\ resp.body[1].name # resp.body[2].name
  /\ resp.body[1].latitude # resp.body[1].longitude

\* C7. The three reads leave both tables unchanged, and a read request that
\* repeats the request served just before it gets the identical response.
C7_ReadIdempotence ==
  [][resp'.req.op \in ReadOps
     => (/\ organisations' = organisations
         /\ locations' = locations
         /\ resp'.req = resp.req => resp' = resp)]_vars

C7_Witness ==
  /\ repeat
  /\ Op("get_organisation_locations")
  /\ resp.status = HTTP_200_OK
  /\ Len(organisations) = 1

\* C8. get_organisations never fails: it returns every persisted
\* Organisation row exactly once, and the empty list when there is none.
C8_GetOrganisations ==
  Op("get_organisations")
  => (/\ resp.status = HTTP_200_OK
      /\ Range(resp.body) = Range(organisations)
      /\ Len(resp.body) = Len(organisations)
      /\ NoDuplicates(resp.body))

C8_Witness ==
  /\ Op("get_organisations")
  /\ resp.status = HTTP_200_OK
  /\ resp.body = <<>>
  /\ organisations = <<>>

\* C9. The store is append-only: a row that exists is in the store after
\* every step, with its identifier and all its attributes unchanged.
C9_AppendOnly ==
  [][/\ \A o \in Range(organisations) : o \in Range(organisations')
     /\ \A l \in Range(locations) : l \in Range(locations')]_vars

C9_Witness ==
  /\ Len(organisations) = 2
  /\ Len(locations) = 1
  /\ Op("create_organisation")
  /\ organisations[1].name = ""

UniqueIds(rows) ==
  \A i, j \in 1..Len(rows) : rows[i].id = rows[j].id => i = j

\* C10. create_organisation succeeds for every name, the empty name and a
\* name already in use included: it inserts exactly one Organisation row and
\* returns it with a non-null identifier.  No two Organisation rows share an
\* identifier, and no two Location rows do.
C10_CreateOrganisation ==
  /\ [](UniqueIds(organisations) /\ UniqueIds(locations))
  /\ [][resp'.req.op = "create_organisation"
        => (/\ resp'.status = HTTP_200_OK
            /\ Len(resp'.body) = 1
            /\ resp'.body[1].id # NullId
            /\ resp'.body[1].name = resp'.req.name
            /\ resp'.body[1] \notin Range(organisations)
            /\ Len(organisations') = Len(organisations) + 1
            /\ Range(organisations') = Range(organisations) \cup {resp'.body[1]}
            /\ locations' = locations)]_vars

\* Two organisations with the same, empty, name.
C10_Witness ==
  /\ Op("create_organisation")
  /\ Len(organisations) = 2
  /\ organisations[1].name = ""
  /\ organisations[2].name = ""
  /\ organisations[1].id # organisations[2].id

====
